---- MODULE Spec2Model ----
(***************************************************************************)
(* State-machine model of the browser client in src/script.js: the two     *)
(* recording controllers (speech recognizer of the interview, MediaRecorder*)
(* of the learning view), the conversational exchange loop, the session    *)
(* store, the screen/section navigator and the forms of the dashboards;    *)
(* and of the mode-based navigator and the exchange loop of the earlier    *)
(* client src/script_old.js.                                               *)
(*                                                                         *)
(* One action is one run-to-completion task of the page's single thread: a *)
(* DOM event handler, or the continuation of an async function after an    *)
(* await.  The browser objects the code drives (SpeechRecognition,         *)
(* getUserMedia, MediaRecorder, fetch) are the environment; their events   *)
(* are actions too.                                                        *)
(*                                                                         *)
(* The page's markup is not part of the sources.  The handlers of the      *)
(* recording controllers and of the exchange loop are taken to be          *)
(* invocable in every state, and start and stop of a controller are also   *)
(* invocable directly, as the operations of its contract.  The controls of *)
(* the session store and the navigator are operable only while the screen  *)
(* they lie on is active.  The text panels (transcript, chat list, the     *)
(* lists of assignments and papers) and speech synthesis are only written  *)
(* by the handlers and are left out.  The wall clock is read only when a   *)
(* session starts; the instant of the k-th start is named k.               *)
(***************************************************************************)
EXTENDS Integers, Sequences, FiniteSets, TLC

(***************************************************************************)
(* Bounds of the model.                                                    *)
(***************************************************************************)
\* microphone streams getUserMedia may hand out in one run
MaxStreams == 3
\* completion requests (POST /api/generate) issued in one run
MaxCalls == 2
\* requests of login, logout, token verification and key test awaited at once
MaxPending == 2
\* interval timers script_old.js starts in one run
MaxIntervals == 2
MaxTurns == 6
MaxStarts == 2
MaxUtterances == 2

StreamIds == 1..MaxStreams
CallIds == 1..MaxCalls

VARIABLES
    \* ---- interview recording controller (script.js 6, 14, 585-653)
    recognition,          \* "null" | "object": the SpeechRecognition instance
    recognizer,           \* the browser recognizer's run state
    isRecording,
    recordBtn,            \* TRUE iff #recordBtn carries the class 'recording'
    \* ---- learning recording controller (script.js 15-21, 940-987)
    isLearningRecording,
    learningMediaRecorder, \* 0 = null, else the stream id its recorder records
    mediaStream,           \* 0 = null, else a stream id
    learningAudioChunks,   \* chunks, each named by the recorder that produced it
    learningMicBtn,        \* TRUE iff #learningMicBtn carries 'recording'
    gumPending,            \* startLearningRecording calls suspended in getUserMedia
    allocated,             \* streams handed out so far (ids 1..allocated)
    streamLive,            \* ids of streams whose tracks are not stopped
    recorderState,         \* per stream id: state of the MediaRecorder built on it
    audioBlobs,            \* blobs the onstop handlers handed to saveLearningAudio
    \* ---- session store and exchange loop (script.js 4, 9-13, 708-894)
    apiKey,
    storedApiKey,          \* localStorage item 'apiKey' ("" = absent)
    conversationHistory,
    questionCount,
    correctionCount,
    interviewShown,        \* #interviewContainer displayed (startInterview ran)
    durationTimers,        \* running setInterval timers of startDurationTimer
    activeScreens,         \* ids of the .screen elements carrying 'active'
    calls,                 \* completion calls: the suspended async functions
    resets,                \* history variable: interview resets so far
    sessionStartTime,      \* 0 = null, else the instant of the reset that set
                           \* it (the k-th reset happens at instant k)
    turnCall,              \* history variable: call id that pushed each turn
    \* ---- session store and navigator (script.js 2-3, 43-204, 383-449)
    authToken,             \* "null" or the bearer token
    currentUser,           \* "null" or the user_type of the user record
    storedAuthToken,       \* localStorage item 'authToken' ("null" = absent)
    activeSections,        \* ids of the .content-section elements carrying 'active'
    activeNavBtns,         \* the .nav-btn elements carrying 'active'
    pending,               \* per kind of request: async functions awaiting it
    authHeaders,           \* history variable: tokens sent in Authorization headers
    lastNavBtn,            \* history variable: the navigation button clicked last
    \* ---- the page of script_old.js (script_old.js 2-20)
    activeScreens_old,     \* ids of its screens carrying 'active'
    appMode,
    apiKey_old,
    pending_old,           \* per kind of request: async functions awaiting it
    durationIntervals_old, \* running setInterval timers of startDurationTimer
    questionCount_old,
    teacherSessionId,
    toast_old,             \* type of the last notice of this page
    \* ---- exchange loop of script_old.js (script_old.js 8-15, 185-195, 335-437, 510-528)
    conversationHistory_old,
    correctionCount_old,
    sessionStartTime_old,  \* 0 = null, else the instant of the session start
                           \* that set it (the k-th start happens at instant k)
    starts_old,            \* history variable: session starts so far
    mediaStream_old,       \* "null" or "stream"
    tasks_old,             \* the calls of analyzeAndProcessResponse: where each
                           \* is suspended, and the user turns and exchange
                           \* turns it has made (history)
    \* ---- forms of the dashboards (script.js 18, 104-134, 461-491, 554-584, 902-938)
    learningSessionId,     \* "null", Undefined or the id of the learning session
    learningShown,         \* #learningContainer displayed, .learning-setup hidden
    teacher_session_id,    \* window._teacher_session_id (Undefined before an upload)
    formPending,           \* per kind of form request: async functions awaiting it
    keysBefore,            \* history variable: per value of apiKey before a
                           \* handleStartSession() call, the calls awaiting testApiKey()
    \* ---- shared
    toast,                 \* type of the last notice shown by showToast ("" = none)
    uncaught               \* handlers that ended with an uncaught exception

recVars == <<recognition, recognizer, isRecording, recordBtn>>
learnVars == <<isLearningRecording, learningMediaRecorder, mediaStream,
               learningAudioChunks, learningMicBtn, gumPending, allocated,
               streamLive, recorderState, audioBlobs>>
exchVars == <<apiKey, storedApiKey, conversationHistory, questionCount, correctionCount,
              interviewShown, durationTimers, activeScreens, calls, resets,
              sessionStartTime,
              turnCall>>
navVars == <<authToken, currentUser, storedAuthToken, activeSections,
             activeNavBtns, pending, authHeaders, lastNavBtn>>
oldVars == <<activeScreens_old, appMode, apiKey_old, pending_old,
             durationIntervals_old, questionCount_old, teacherSessionId,
             toast_old>>
oldExchVars == <<conversationHistory_old, correctionCount_old,
                 sessionStartTime_old, starts_old, mediaStream_old, tasks_old>>
formVars == <<learningSessionId, learningShown, teacher_session_id,
              formPending, keysBefore>>
vars == <<recVars, learnVars, exchVars, navVars, oldVars, oldExchVars,
          formVars, toast, uncaught>>

(***************************************************************************)
(* Strings.  The state holds a text by name; what the code computes on a   *)
(* text (trim, toLowerCase, includes) is computed on its characters.       *)
(***************************************************************************)
\* the value of data.response when the reply carries no response field
Undefined == "undefined"

\* callGeminiAPI's fallback text (script.js 843, 849)
Apology == "I apologize, but I encountered an error. Could you please repeat that?"

\* texts the completion service may return
ResponseTexts == {"Correction: fix your tense", "Great job!"}

\* values of #chatInput when a message is sent
ChatInputs == {"   ", " My answer "}

\* final transcripts the recognizer delivers
Transcripts == {"CORRECTION: I misspoke"}

\* values of a dashboard API-key input when its save button is clicked
KeyInputs == {"", "   ", " sk-1 "}

Strings == {"", Apology, "correction:", "correction: be concise", "sk-1",
            "My answer"}
               \cup ResponseTexts
               \cup ChatInputs \cup Transcripts \cup KeyInputs

Chars(s) ==
    CASE s = "I apologize, but I encountered an error. Could you please repeat that?" ->
        <<"I", " ", "a", "p", "o", "l", "o", "g", "i", "z", "e", ",",
          " ", "b", "u", "t", " ", "I", " ", "e", "n", "c", "o",
          "u", "n", "t", "e", "r", "e", "d", " ", "a", "n", " ",
          "e", "r", "r", "o", "r", ".", " ", "C", "o", "u", "l",
          "d", " ", "y", "o", "u", " ", "p", "l", "e", "a", "s",
          "e", " ", "r", "e", "p", "e", "a", "t", " ", "t", "h",
          "a", "t", "?">>
      [] s = "Correction: fix your tense" ->
        <<"C", "o", "r", "r", "e", "c", "t", "i", "o", "n", ":", " ",
          "f", "i", "x", " ", "y", "o", "u", "r", " ", "t", "e",
          "n", "s", "e">>
      [] s = "Great job!" ->
        <<"G", "r", "e", "a", "t", " ", "j", "o", "b", "!">>
      [] s = "correction: be concise" ->
        <<"c", "o", "r", "r", "e", "c", "t", "i", "o", "n", ":", " ",
          "b", "e", " ", "c", "o", "n", "c", "i", "s", "e">>
      [] s = "correction:" ->
        <<"c", "o", "r", "r", "e", "c", "t", "i", "o", "n", ":">>
      [] s = "   " ->
        <<" ", " ", " ">>
      [] s = " My answer " ->
        <<" ", "M", "y", " ", "a", "n", "s", "w", "e", "r", " ">>
      [] s = "My answer" ->
        <<"M", "y", " ", "a", "n", "s", "w", "e", "r">>
      [] s = "CORRECTION: I misspoke" ->
        <<"C", "O", "R", "R", "E", "C", "T", "I", "O", "N", ":", " ",
          "I", " ", "m", "i", "s", "s", "p", "o", "k", "e">>
      [] s = " sk-1 " ->
        <<" ", "s", "k", "-", "1", " ">>
      [] s = "sk-1" ->
        <<"s", "k", "-", "1">>
      [] OTHER -> <<>>

\* the text with the characters cs
Str(cs) == CHOOSE s \in Strings : Chars(s) = cs

UpperCase == <<"A", "B", "C", "D", "E", "F", "G", "H", "I", "J", "K", "L", "M",
               "N", "O", "P", "Q", "R", "S", "T", "U", "V", "W", "X", "Y", "Z">>
LowerCase == <<"a", "b", "c", "d", "e", "f", "g", "h", "i", "j", "k", "l", "m",
               "n", "o", "p", "q", "r", "s", "t", "u", "v", "w", "x", "y", "z">>

\* String.prototype.toLowerCase, on characters
toLowerCase(cs) ==
    [i \in 1..Len(cs) |->
        IF \E k \in 1..26 : UpperCase[k] = cs[i]
        THEN LowerCase[CHOOSE k \in 1..26 : UpperCase[k] = cs[i]]
        ELSE cs[i]]

\* String.prototype.includes, on characters
includes(cs, sub) ==
    \E i \in 0..(Len(cs) - Len(sub)) : \A j \in 1..Len(sub) : cs[i + j] = sub[j]

RECURSIVE trimStart(_)
trimStart(cs) ==
    IF cs # <<>> /\ Head(cs) = " " THEN trimStart(Tail(cs)) ELSE cs

RECURSIVE trimEnd(_)
trimEnd(cs) ==
    IF cs # <<>> /\ cs[Len(cs)] = " "
    THEN trimEnd(SubSeq(cs, 1, Len(cs) - 1))
    ELSE cs

\* String.prototype.trim
trim(s) == Str(trimEnd(trimStart(Chars(s))))

\* the test of script.js 813 without toLowerCase(): a case-sensitive search
hasCorrectionCaseSensitive(response) ==
    includes(Chars(response), Chars("correction:"))

\* response.toLowerCase().includes('correction:') (script.js 813)
hasCorrection(response) ==
    includes(toLowerCase(Chars(response)), Chars("correction:"))

(***************************************************************************)
(* Interview recording controller.                                         *)
(*                                                                         *)
(* recognizer is the state of the browser's SpeechRecognition object:      *)
(*   "inactive"  not started;                                              *)
(*   "starting"  start() accepted, audio capture not yet begun;            *)
(*   "running"   capturing and recognizing;                                *)
(*   "stopping"  stop() accepted or an error reported, 'end' still due.    *)
(* start() throws InvalidStateError unless the object is inactive; stop()  *)
(* on an object that is not capturing is ignored.                          *)
(***************************************************************************)
RecognizerStates == {"inactive", "starting", "running", "stopping"}

\* recognition.stop()
recognitionStop(r) == IF r \in {"starting", "running"} THEN "stopping" ELSE r

\* recognition.start(): TRUE when it throws
recognitionStartThrows(r) == r # "inactive"

\* stopRecording(): the recognizer is stopped only when there is one
stopRecording ==
    /\ isRecording' = FALSE
    /\ recordBtn' = FALSE
    /\ recognizer' = IF recognition # "null" THEN recognitionStop(recognizer)
                     ELSE recognizer
    /\ UNCHANGED recognition

\* startRecording(): the flag and the indicator are set before start() is
\* tried; when start() throws, the catch block runs stopRecording()
startRecording ==
    IF recognition = "null"
    THEN /\ toast' = "error"
         /\ UNCHANGED recVars
    ELSE /\ UNCHANGED toast
         /\ IF recognitionStartThrows(recognizer)
            THEN stopRecording
            ELSE /\ isRecording' = TRUE
                 /\ recordBtn' = TRUE
                 /\ recognizer' = "starting"
                 /\ UNCHANGED recognition

\* click on #recordBtn
toggleRecording ==
    /\ IF isRecording
       THEN stopRecording /\ UNCHANGED toast
       ELSE startRecording
    /\ UNCHANGED <<oldVars, oldExchVars, formVars,
                   navVars, learnVars, exchVars, uncaught>>

\* startRecording() called as the controller's start operation
StartRecordingCall ==
    /\ startRecording
    /\ UNCHANGED <<oldVars, oldExchVars, formVars,
                   navVars, learnVars, exchVars, uncaught>>

\* stopRecording() called as the controller's stop operation
StopRecordingCall ==
    /\ stopRecording
    /\ UNCHANGED <<oldVars, oldExchVars, formVars,
                   navVars, learnVars, exchVars, toast, uncaught>>

\* the recognizer begins capturing (its 'start' event; the page has no handler)
RecognizerStarted ==
    /\ recognizer = "starting"
    /\ recognizer' = "running"
    /\ UNCHANGED <<oldVars, oldExchVars, formVars,
                   navVars, recognition, isRecording, recordBtn,
                   learnVars,
                   exchVars,
                   toast, uncaught>>

\* recognition.onerror: permission denied while starting; no-speech,
\* audio-capture or network later on.  The handler runs stopRecording(); the
\* recognizer ends after an error whether or not stop() is called
RecognitionOnError ==
    /\ recognizer \in {"starting", "running", "stopping"}
    /\ toast' = "error"
    /\ stopRecording
    /\ UNCHANGED <<oldVars, oldExchVars, formVars,
                   navVars, learnVars, exchVars, uncaught>>

\* the 'end' event that follows stop() or an error (no onend handler)
RecognizerEnded ==
    /\ recognizer = "stopping"
    /\ recognizer' = "inactive"
    /\ UNCHANGED <<oldVars, oldExchVars, formVars,
                   navVars, recognition, isRecording, recordBtn,
                   learnVars,
                   exchVars,
                   toast, uncaught>>

\* the recognizer ends the session by itself (no error; no onend handler)
RecognizerEndedByItself ==
    /\ recognizer = "running"
    /\ recognizer' = "inactive"
    /\ UNCHANGED <<oldVars, oldExchVars, formVars,
                   navVars, recognition, isRecording, recordBtn,
                   learnVars,
                   exchVars,
                   toast, uncaught>>

(***************************************************************************)
(* Learning recording controller.                                          *)
(*                                                                         *)
(* Every successful getUserMedia hands out a new stream; the recorder      *)
(* built on stream s is named s.  recorderState[s] is                      *)
(*   "none"       no recorder was built on s;                              *)
(*   "inactive"   built, not recording, no event due;                      *)
(*   "recording"  started;                                                 *)
(*   "stopping"   stop() accepted: its state is inactive, and the task     *)
(*                that fires dataavailable and stop is still due.          *)
(***************************************************************************)
RecorderStates == {"none", "inactive", "recording", "stopping"}

\* what getUserMedia and the recorder do in one startLearningRecording
GumOutcomes == {"denied", "recording", "constructorThrows", "startThrows"}

\* MediaRecorder.stop() on a recorder that is not recording: browsers differ
\* (InvalidStateError, or the call is ignored)
StopInactiveOutcomes == {"throws", "ignored"}

\* startLearningRecording() up to its await: getUserMedia is requested
startLearningRecording ==
    /\ allocated + gumPending < MaxStreams
    /\ gumPending' = gumPending + 1
    /\ UNCHANGED <<isLearningRecording, learningMediaRecorder, mediaStream,
                   learningAudioChunks, learningMicBtn, allocated, streamLive,
                   recorderState, audioBlobs>>

\* stopLearningRecording(); o is the browser's answer to stop() on a
\* recorder that is not recording
stopLearningRecording(o) ==
    IF learningMediaRecorder = 0
    THEN UNCHANGED <<learnVars, uncaught>>
    ELSE /\ isLearningRecording' = FALSE
         /\ IF recorderState[learningMediaRecorder] = "recording"
            THEN /\ recorderState' =
                        [recorderState EXCEPT ![learningMediaRecorder] = "stopping"]
                 /\ streamLive' = streamLive \ {mediaStream}
                 /\ learningMicBtn' = FALSE
                 /\ UNCHANGED uncaught
            ELSE IF o = "throws"
            THEN /\ uncaught' = uncaught \cup {"stopLearningRecording"}
                 /\ UNCHANGED <<recorderState, streamLive, learningMicBtn>>
            ELSE /\ streamLive' = streamLive \ {mediaStream}
                 /\ learningMicBtn' = FALSE
                 /\ UNCHANGED <<recorderState, uncaught>>
         /\ UNCHANGED <<learningMediaRecorder, mediaStream, learningAudioChunks,
                        gumPending, allocated, audioBlobs>>

\* click on #learningMicBtn
toggleLearningRecording ==
    /\ IF isLearningRecording
       THEN \E o \in StopInactiveOutcomes : stopLearningRecording(o)
       ELSE startLearningRecording /\ UNCHANGED uncaught
    /\ UNCHANGED <<oldVars, oldExchVars, formVars,
                   navVars, recVars, exchVars, toast>>

\* startLearningRecording() called as the controller's start operation
StartLearningRecordingCall ==
    /\ startLearningRecording
    /\ UNCHANGED <<oldVars, oldExchVars, formVars,
                   navVars, recVars, exchVars, toast, uncaught>>

\* stopLearningRecording() called as the controller's stop operation
StopLearningRecordingCall ==
    /\ \E o \in StopInactiveOutcomes : stopLearningRecording(o)
    /\ UNCHANGED <<oldVars, oldExchVars, formVars,
                   navVars, recVars, exchVars, toast>>

\* startLearningRecording() after its await: getUserMedia settled with
\* outcome o, and the rest of the try block ran
startLearningRecordingResume(o) ==
    LET s == allocated + 1 IN
    /\ gumPending > 0
    /\ gumPending' = gumPending - 1
    /\ IF o = "denied"
       THEN /\ toast' = "error"
            /\ UNCHANGED <<isLearningRecording, learningMediaRecorder,
                           mediaStream, learningAudioChunks, learningMicBtn,
                           allocated, streamLive, recorderState>>
       ELSE /\ allocated' = s
            /\ streamLive' = streamLive \cup {s}
            /\ mediaStream' = s
            /\ IF o = "constructorThrows"
               THEN /\ toast' = "error"
                    /\ UNCHANGED <<isLearningRecording, learningMediaRecorder,
                                   learningAudioChunks, learningMicBtn,
                                   recorderState>>
               ELSE /\ learningMediaRecorder' = s
                    /\ learningAudioChunks' = <<>>
                    /\ isLearningRecording' = TRUE
                    /\ IF o = "startThrows"
                       THEN /\ recorderState' =
                                   [recorderState EXCEPT ![s] = "inactive"]
                            /\ toast' = "error"
                            /\ UNCHANGED learningMicBtn
                       ELSE /\ recorderState' =
                                   [recorderState EXCEPT ![s] = "recording"]
                            /\ learningMicBtn' = TRUE
                            /\ UNCHANGED toast
    /\ UNCHANGED audioBlobs

\* a pending getUserMedia settles
GetUserMediaSettled ==
    /\ \E o \in GumOutcomes : startLearningRecordingResume(o)
    /\ UNCHANGED <<oldVars, oldExchVars, formVars,
                   navVars, recVars, exchVars, uncaught>>

\* the task a recorder queues on stop(): ondataavailable pushes the data,
\* then onstop builds one Blob of learningAudioChunks for saveLearningAudio
RecorderStopTask ==
    /\ \E s \in StreamIds :
          /\ recorderState[s] = "stopping"
          /\ recorderState' = [recorderState EXCEPT ![s] = "inactive"]
          /\ learningAudioChunks' = Append(learningAudioChunks, s)
          /\ audioBlobs' = Append(audioBlobs, learningAudioChunks')
    /\ UNCHANGED <<oldVars, oldExchVars, formVars,
                   navVars, isLearningRecording,
                   learningMediaRecorder,
                   mediaStream,
                   learningMicBtn, gumPending, allocated, streamLive,
                   recVars, exchVars, toast, uncaught>>

(***************************************************************************)
(* Session store and navigator, as far as the exchange loop uses them.     *)
(***************************************************************************)
\* ids of the .screen elements (script.js 63, 156, 683, 711)
Screens == {"authScreen", "studentDashboard", "teacherDashboard", "apiSetup"}

\* showScreen(screenId): the set of active screens after the call
showScreen(screenId) == IF screenId \in Screens THEN {screenId} ELSE {}

\* saveDashboardApiKey(inputId), v the value of the input
saveDashboardApiKey(v) ==
    /\ IF trim(v) = ""
       THEN /\ toast' = "error"
            /\ UNCHANGED <<apiKey, storedApiKey>>
       ELSE /\ apiKey' = trim(v)
            /\ storedApiKey' = trim(v)
            /\ toast' = "success"
    /\ UNCHANGED <<oldVars, oldExchVars, formVars,
                   navVars, conversationHistory, questionCount,
                   correctionCount,
                   interviewShown, durationTimers, activeScreens, calls,
                   resets, sessionStartTime, turnCall, recVars, learnVars, uncaught>>

\* click on a dashboard's save-API-key button
SaveApiKeyClick == \E v \in KeyInputs : saveDashboardApiKey(v)

(***************************************************************************)
(* Conversational exchange loop.                                           *)
(*                                                                         *)
(* calls[i] is the i-th completion request: kind names the async function  *)
(* suspended on it, status is "pending" until its continuation has run,    *)
(* session is the value of resets when it was issued.                      *)
(***************************************************************************)
\* how one fetch of /api/generate ends
FailureOutcomes == {"http_error", "network_error", "bad_json"}
Outcomes == ResponseTexts \cup {"no_response_field"} \cup FailureOutcomes

\* callGeminiAPI without the response.ok test of script.js 841: the body of
\* an error reply is read like a completion, and carries no response field
callGeminiAPINoStatusCheck(o) ==
    IF o \in {"network_error", "bad_json"} THEN Apology
    ELSE IF o \in {"no_response_field", "http_error"} THEN Undefined
    ELSE o

\* callGeminiAPI(prompt): the value it returns when the fetch ends as o
callGeminiAPI(o) ==
    IF o \in FailureOutcomes THEN Apology
    ELSE IF o = "no_response_field" THEN Undefined
    ELSE o

\* callGeminiAPI(prompt): the notice it shows, if any
callGeminiAPIToast(o) ==
    IF o \in FailureOutcomes THEN "error" ELSE toast

Pending == {i \in DOMAIN calls : calls[i].status = "pending"}

\* startDurationTimer(): a running interval is cleared before the new one
startDurationTimer(n) == (IF n > 0 THEN n - 1 ELSE 0) + 1

\* arr.slice(start) for a negative start: the last -start elements
slice(arr, start) ==
    SubSeq(arr, IF Len(arr) + start < 0 THEN 1 ELSE Len(arr) + start + 1,
           Len(arr))

\* lines.join(sep)
RECURSIVE join(_, _)
join(lines, sep) ==
    IF lines = <<>> THEN ""
    ELSE IF Len(lines) = 1 THEN lines[1]
    ELSE lines[1] \o sep \o join(Tail(lines), sep)

\* the template `${msg.role}: ${msg.content}`
promptLine(msg) == msg.role \o ": " \o msg.content

\* the two interpolations of the prompt of processUserResponse: the text
\* under 'Previous conversation:' and the text after 'The candidate just
\* said:', history the value of conversationHistory when the prompt is built
userPrompt(history, userMessage) ==
    [previous |-> join([i \in DOMAIN slice(history, -5) |->
                           promptLine(slice(history, -5)[i])], "\n"),
     said |-> userMessage]

\* the prompt of sendInitialGreeting interpolates no turn and no utterance
greetingPrompt == [previous |-> "", said |-> ""]

\* callGeminiAPI(prompt) up to its await: a request to /api/generate is in
\* flight and the calling function is suspended
issueCall(kind, session, prompt) ==
    calls' = Append(calls, [kind |-> kind, session |-> session,
                            status |-> "pending", prompt |-> prompt])

\* processUserResponse(userMessage) up to its await
processUserResponse(userMessage) ==
    /\ Len(calls) < MaxCalls
    /\ conversationHistory' =
          Append(conversationHistory, [role |-> "user", content |-> userMessage])
    /\ turnCall' = Append(turnCall, Len(calls) + 1)
    /\ issueCall("user", resets,
                 userPrompt(conversationHistory', userMessage))
    /\ UNCHANGED <<apiKey, storedApiKey, questionCount, correctionCount,
                   interviewShown, durationTimers, activeScreens, resets, sessionStartTime>>

\* sendChatMessage(), v the value of #chatInput
sendChatMessage(v) ==
    IF trim(v) = ""
    THEN UNCHANGED exchVars
    ELSE processUserResponse(trim(v))

\* click on #sendBtn
SendBtnClick ==
    /\ \E v \in ChatInputs : sendChatMessage(v)
    /\ UNCHANGED <<oldVars, oldExchVars, formVars,
                   navVars, recVars, learnVars, toast, uncaught>>

\* keypress on #chatInput: Enter without Shift sends
ChatInputKeypress ==
    /\ \E key \in {"Enter", "a"}, shiftKey \in BOOLEAN, v \in ChatInputs :
          IF key = "Enter" /\ ~shiftKey
          THEN sendChatMessage(v)
          ELSE UNCHANGED exchVars
    /\ UNCHANGED <<oldVars, oldExchVars, formVars,
                   navVars, recVars, learnVars, toast, uncaught>>

\* recognition.onresult with a final result (interimResults is false)
RecognitionOnResult ==
    /\ recognizer \in {"running", "stopping"}
    /\ \E transcript \in Transcripts : processUserResponse(transcript)
    /\ UNCHANGED <<oldVars, oldExchVars, formVars,
                   navVars, recVars, learnVars, toast, uncaught>>

\* Date.now() in the handler that performs the k-th reset
now(k) == k

\* sendInitialGreeting() up to its await
sendInitialGreeting(session) == issueCall("greeting", session, greetingPrompt)

\* startInterview()
startInterview ==
    IF apiKey = ""
    THEN /\ toast' = "error"
         /\ activeScreens' = showScreen("apiSetup")
         /\ UNCHANGED <<apiKey, storedApiKey, conversationHistory,
                        questionCount, correctionCount, interviewShown,
                        durationTimers, calls, resets, sessionStartTime, turnCall>>
    ELSE /\ Len(calls) < MaxCalls
         /\ interviewShown' = TRUE
         /\ durationTimers' = startDurationTimer(durationTimers)
         /\ questionCount' = 0
         /\ correctionCount' = 0
         /\ conversationHistory' = <<>>
         /\ turnCall' = <<>>
         /\ resets' = resets + 1
         /\ sessionStartTime' = now(resets')
         /\ sendInitialGreeting(resets + 1)
         /\ UNCHANGED <<apiKey, storedApiKey, activeScreens, toast>>

\* click on #startInterviewBtn
StartInterviewClick ==
    /\ startInterview
    /\ UNCHANGED <<oldVars, oldExchVars, formVars,
                   navVars, recVars, learnVars, uncaught>>

\* startNewInterview() without the reset of questionCount
startNewInterviewKeepsCount ==
    /\ Len(calls) < MaxCalls
    /\ conversationHistory' = <<>>
    /\ turnCall' = <<>>
    /\ correctionCount' = 0
    /\ resets' = resets + 1
    /\ sessionStartTime' = now(resets')
    /\ sendInitialGreeting(resets + 1)
    /\ UNCHANGED <<apiKey, storedApiKey, interviewShown, durationTimers,
                   activeScreens, questionCount>>

\* startNewInterview()
startNewInterview ==
    /\ Len(calls) < MaxCalls
    /\ conversationHistory' = <<>>
    /\ turnCall' = <<>>
    /\ questionCount' = 0
    /\ correctionCount' = 0
    /\ resets' = resets + 1
    /\ sessionStartTime' = now(resets')
    /\ sendInitialGreeting(resets + 1)
    /\ UNCHANGED <<apiKey, storedApiKey, interviewShown, durationTimers,
                   activeScreens>>

\* click on #newInterviewBtn
NewInterviewClick ==
    /\ startNewInterview
    /\ UNCHANGED <<oldVars, oldExchVars, formVars,
                   navVars, recVars, learnVars, toast, uncaught>>

\* processUserResponse after its await: call i ended as o
processUserResponseResume(i, o) ==
    LET response == callGeminiAPI(o) IN
    /\ conversationHistory' =
          Append(conversationHistory, [role |-> "assistant", content |-> response])
    /\ turnCall' = Append(turnCall, i)
    /\ IF response = Undefined
       THEN \* response.toLowerCase() throws a TypeError
            /\ uncaught' = uncaught \cup {"processUserResponse"}
            /\ UNCHANGED <<correctionCount, questionCount>>
       ELSE /\ correctionCount' =
                  IF hasCorrection(response) THEN correctionCount + 1
                  ELSE correctionCount
            /\ questionCount' = questionCount + 1
            /\ UNCHANGED uncaught

\* sendInitialGreeting after its await: call i ended as o
sendInitialGreetingResume(i, o) ==
    /\ questionCount' = questionCount + 1
    /\ UNCHANGED <<conversationHistory, turnCall, correctionCount, uncaught>>

\* the pending fetch of call i ends as o and the function awaiting it resumes
CompletionSettledAs(i, o) ==
    /\ i \in Pending
    /\ calls' = [calls EXCEPT ![i].status = "done"]
    /\ toast' = callGeminiAPIToast(o)
    /\ IF calls[i].kind = "user"
       THEN processUserResponseResume(i, o)
       ELSE sendInitialGreetingResume(i, o)
    /\ UNCHANGED <<oldVars, oldExchVars, formVars,
                   navVars, apiKey, storedApiKey, interviewShown,
                   durationTimers,
                   activeScreens, resets, sessionStartTime, recVars, learnVars>>

\* some pending fetch of /api/generate ends
CompletionSettled == \E i \in CallIds, o \in Outcomes : CompletionSettledAs(i, o)

(***************************************************************************)
(* Session store and screen/section navigator.                             *)
(*                                                                         *)
(* The markup is given by SectionsOf and NavBtns: two dashboard containers,*)
(* each with its content sections and one navigation button per section.   *)
(* A control is operable only while the screen it lies on is active; the   *)
(* screen of a control is read from the grouping of the listeners in       *)
(* initializeEventListeners and from the code that leads to it.  The lists *)
(* the load functions render are text and are left out; the request each   *)
(* of them sends is recorded in authHeaders.                               *)
(***************************************************************************)
\* the bearer token the server issues
Token == "t1"
UserTypes == {"student", "teacher"}
Dashboards == {"studentDashboard", "teacherDashboard"}

\* ids of the .content-section elements inside each .dashboard-container
SectionsOf ==
    [studentDashboard |-> {"assignmentsSection", "submissionsSection",
                           "interviewSection", "learningSection"},
     teacherDashboard |-> {"papersSection", "gradeSection"}]
AllSections == UNION {SectionsOf[d] : d \in Dashboards}

\* data-section values of the navigation buttons
SectionNames == {"assignments", "submissions", "interview", "learning",
                 "papers", "grade"}

\* the .nav-btn elements: <<dashboard container, data-section>>, in document
\* order the student dashboard first
NavBtns == {<<d, n>> \in Dashboards \X SectionNames :
               n \o "Section" \in SectionsOf[d]}
BtnsOf(d) == {b \in NavBtns : b[1] = d}

\* sectionId.replace(/Section$/, '')
sectionNameOf(sectionId) ==
    IF \E n \in SectionNames : n \o "Section" = sectionId
    THEN CHOOSE n \in SectionNames : n \o "Section" = sectionId
    ELSE sectionId

\* requests awaited by suspended async functions, per kind
PendingKinds == {"login", "logout", "verify", "testKey"}
PendingTotal ==
    pending.login + pending.logout + pending.verify + pending.testKey

\* loadDashboard() throws at currentUser.user_type when there is no user
loadDashboardThrows(user) == user = "null"

\* loadDashboard() with currentUser = user and authToken = token: shows the
\* user's dashboard, then loadAssignments() / loadTeacherPapers() send a
\* bearer request
loadDashboard(user, token) ==
    /\ activeScreens' = showScreen(IF user = "teacher" THEN "teacherDashboard"
                                   ELSE "studentDashboard")
    /\ authHeaders' = authHeaders \cup {token}

\* switchSection(sectionId): deactivation is document-wide; the button is
\* the first element of the document with the data-section
switchSection(sectionId) ==
    LET sectionName == sectionNameOf(sectionId)
        matches == {b \in NavBtns : b[2] = sectionName}
    IN /\ activeSections' = {sectionId} \cap AllSections
       /\ activeNavBtns' =
             IF matches = {} THEN {}
             ELSE IF \E b \in matches : b[1] = "studentDashboard"
             THEN {<<"studentDashboard", sectionName>>}
             ELSE {<<"teacherDashboard", sectionName>>}

\* the nav-btn click handler with querySelectorAll run on the document
\* instead of the button's dashboard
navBtnClickUnscoped(d, section) ==
    LET sectionId == section \o "Section" IN
    /\ activeSections' = {sectionId} \cap SectionsOf[d]
    /\ activeNavBtns' = {<<d, section>>}
    /\ authHeaders' =
          IF \/ d = "studentDashboard" /\ section \in {"assignments", "submissions"}
             \/ d = "teacherDashboard" /\ section = "papers"
          THEN authHeaders \cup {authToken}
          ELSE authHeaders

\* the nav-btn click handler for a button with data-section = section inside
\* dashboard d; loadAssignments / loadSubmissions / loadTeacherPapers send a
\* bearer request
navBtnClick(d, section) ==
    LET sectionId == section \o "Section" IN
    /\ activeSections' =
          (activeSections \ SectionsOf[d]) \cup ({sectionId} \cap SectionsOf[d])
    /\ activeNavBtns' = (activeNavBtns \ BtnsOf(d)) \cup {<<d, section>>}
    /\ authHeaders' =
          IF \/ d = "studentDashboard" /\ section \in {"assignments", "submissions"}
             \/ d = "teacherDashboard" /\ section = "papers"
          THEN authHeaders \cup {authToken}
          ELSE authHeaders

\* click on a navigation button of the dashboard on screen
NavBtnClick ==
    /\ \E b \in NavBtns :
          /\ b[1] \in activeScreens
          /\ navBtnClick(b[1], b[2])
          /\ lastNavBtn' = b
    /\ UNCHANGED <<oldVars, oldExchVars, formVars,
                   authToken, currentUser, storedAuthToken, pending,
                   recVars,
                   learnVars, exchVars, toast, uncaught>>

\* viewSubmissions(paperId): the 'View Submissions' button of a paper card
viewSubmissions ==
    /\ switchSection("gradeSection")
    /\ authHeaders' = authHeaders \cup {authToken}

\* click on 'View Submissions' in the teacher's paper list
ViewSubmissionsClick ==
    /\ "teacherDashboard" \in activeScreens
    /\ viewSubmissions
    /\ UNCHANGED <<oldVars, oldExchVars, formVars,
                   lastNavBtn, authToken, currentUser,
                   storedAuthToken, pending, recVars,
                   learnVars, exchVars, toast, uncaught>>

\* checkAuth() up to its await, token the stored item and p the requests
\* pending when it is called
checkAuth(token, p) ==
    IF token # "null"
    THEN /\ pending' = [p EXCEPT !.verify = @ + 1]
         /\ authHeaders' = authHeaders \cup {token}
         /\ UNCHANGED activeScreens
    ELSE /\ pending' = p
         /\ activeScreens' = showScreen("authScreen")
         /\ UNCHANGED authHeaders

\* how /api/auth/verify and /api/auth/login end: with the user record of a
\* student or a teacher, a non-success status, or a rejected fetch
AuthOutcomes == UserTypes \cup {"rejected", "network_error"}

\* checkAuth() after its await
checkAuthResume(o) ==
    /\ pending.verify > 0
    /\ pending' = [pending EXCEPT !.verify = @ - 1]
    /\ IF o \in UserTypes
       THEN /\ authToken' = Token
            /\ currentUser' = o
            /\ loadDashboard(o, Token)
       ELSE /\ activeScreens' = showScreen("authScreen")
            /\ UNCHANGED <<authToken, currentUser, authHeaders>>

\* the pending token verification ends
VerifySettled ==
    /\ \E o \in AuthOutcomes : checkAuthResume(o)
    /\ UNCHANGED <<oldVars, oldExchVars, formVars,
                   storedAuthToken, activeSections, activeNavBtns,
                   lastNavBtn, apiKey,
                   storedApiKey, conversationHistory, questionCount,
                   correctionCount, interviewShown, durationTimers, calls,
                   resets, sessionStartTime, turnCall, recVars, learnVars, toast, uncaught>>

\* values of #loginUsername and #loginPassword
LoginInputs == {"", "u"}

\* handleLogin() up to its await
handleLogin(username, password) ==
    IF username = "" \/ password = ""
    THEN /\ toast' = "error"
         /\ UNCHANGED pending
    ELSE /\ PendingTotal < MaxPending
         /\ pending' = [pending EXCEPT !.login = @ + 1]
         /\ UNCHANGED toast

\* click on #loginBtn
LoginBtnClick ==
    /\ "authScreen" \in activeScreens
    /\ \E username, password \in LoginInputs : handleLogin(username, password)
    /\ UNCHANGED <<oldVars, oldExchVars, formVars,
                   authToken, currentUser, storedAuthToken,
                   activeSections,
                   activeNavBtns, lastNavBtn, authHeaders, recVars, learnVars, exchVars,
                   uncaught>>

\* handleLogin() after its await
handleLoginResume(o) ==
    /\ pending.login > 0
    /\ pending' = [pending EXCEPT !.login = @ - 1]
    /\ IF o \in UserTypes
       THEN /\ authToken' = Token
            /\ currentUser' = o
            /\ storedAuthToken' = Token
            /\ loadDashboard(o, Token)
            /\ toast' = "success"
       ELSE /\ toast' = "error"
            /\ UNCHANGED <<authToken, currentUser, storedAuthToken,
                           activeScreens, authHeaders>>

\* the pending login request ends
LoginSettled ==
    /\ \E o \in AuthOutcomes : handleLoginResume(o)
    /\ UNCHANGED <<oldVars, oldExchVars, formVars,
                   activeSections, activeNavBtns, lastNavBtn,
                   apiKey, storedApiKey,
                   conversationHistory, questionCount, correctionCount,
                   interviewShown, durationTimers, calls, resets, sessionStartTime, turnCall,
                   recVars, learnVars, uncaught>>

\* handleLogout() up to its await: the request carries the current token
handleLogout ==
    /\ PendingTotal < MaxPending
    /\ pending' = [pending EXCEPT !.logout = @ + 1]
    /\ authHeaders' = authHeaders \cup {authToken}

\* click on #logoutBtn or #teacherLogoutBtn
LogoutBtnClick ==
    /\ activeScreens \cap Dashboards # {}
    /\ handleLogout
    /\ UNCHANGED <<oldVars, oldExchVars, formVars,
                   authToken, currentUser, storedAuthToken,
                   activeSections,
                   activeNavBtns, lastNavBtn, recVars, learnVars, exchVars, toast,
                   uncaught>>

\* handleLogout() after its await, whatever the request's outcome: the
\* stored token is removed, so checkAuth() shows the authentication screen
handleLogoutResume ==
    /\ pending.logout > 0
    /\ storedAuthToken' = "null"
    /\ authToken' = "null"
    /\ currentUser' = "null"
    /\ checkAuth(storedAuthToken', [pending EXCEPT !.logout = @ - 1])
    /\ toast' = "success"

\* the pending logout request ends
LogoutSettled ==
    /\ handleLogoutResume
    /\ UNCHANGED <<oldVars, oldExchVars, formVars,
                   activeSections, activeNavBtns, lastNavBtn,
                   apiKey, storedApiKey,
                   conversationHistory, questionCount, correctionCount,
                   interviewShown, durationTimers, calls, resets, sessionStartTime, turnCall,
                   recVars, learnVars, uncaught>>

\* handleStartSession() up to its await, v the value of #apiKey
handleStartSession(v) ==
    /\ apiKey' = trim(v)
    /\ IF apiKey' = ""
       THEN /\ toast' = "error"
            /\ UNCHANGED pending
       ELSE /\ PendingTotal < MaxPending
            /\ pending' = [pending EXCEPT !.testKey = @ + 1]
            /\ UNCHANGED toast

\* the values apiKey takes
KeyValues == {trim(v) : v \in KeyInputs}

\* click on #startBtn of the API setup screen
StartBtnClick ==
    /\ "apiSetup" \in activeScreens
    /\ \E v \in KeyInputs : handleStartSession(v)
    /\ keysBefore' = IF pending' = pending THEN keysBefore
                     ELSE [keysBefore EXCEPT ![apiKey] = @ + 1]
    /\ UNCHANGED <<oldVars, oldExchVars, learningSessionId, learningShown,
                   teacher_session_id, formPending, authToken, currentUser, storedAuthToken,
                   activeSections,
                   activeNavBtns, lastNavBtn, authHeaders, storedApiKey,
                   conversationHistory, questionCount, correctionCount,
                   interviewShown, durationTimers, activeScreens, calls,
                   resets, sessionStartTime, turnCall, recVars, learnVars, uncaught>>

\* handleStartSession() after its await, isValid the result of testApiKey()
handleStartSessionResume(isValid) ==
    /\ pending.testKey > 0
    /\ pending' = [pending EXCEPT !.testKey = @ - 1]
    /\ IF ~isValid
       THEN /\ toast' = "error"
            /\ UNCHANGED activeScreens
       ELSE /\ activeScreens' = showScreen("studentDashboard")
            /\ toast' = "success"

\* a pending /api/test-key request ends with isValid, for a call of
\* handleStartSession() made when apiKey was key
TestKeySettledAs(key, isValid) ==
    /\ keysBefore[key] > 0
    /\ keysBefore' = [keysBefore EXCEPT ![key] = @ - 1]
    /\ handleStartSessionResume(isValid)
    /\ UNCHANGED <<oldVars, oldExchVars, learningSessionId, learningShown,
                   teacher_session_id, formPending, authToken, currentUser, storedAuthToken,
                   activeSections,
                   activeNavBtns, lastNavBtn, authHeaders, apiKey, storedApiKey,
                   conversationHistory, questionCount, correctionCount,
                   interviewShown, durationTimers, calls, resets, sessionStartTime, turnCall,
                   recVars, learnVars, uncaught>>

\* a pending /api/test-key request ends
TestKeySettled ==
    \E key \in KeyValues, isValid \in BOOLEAN : TestKeySettledAs(key, isValid)

\* click on #backBtn of the API setup screen: loadDashboard()
BackBtnClick ==
    /\ "apiSetup" \in activeScreens
    /\ IF loadDashboardThrows(currentUser)
       THEN /\ uncaught' = uncaught \cup {"loadDashboard"}
            /\ UNCHANGED <<activeScreens, authHeaders>>
       ELSE /\ loadDashboard(currentUser, authToken)
            /\ UNCHANGED uncaught
    /\ UNCHANGED <<oldVars, oldExchVars, formVars,
                   authToken, currentUser, storedAuthToken,
                   activeSections,
                   activeNavBtns, lastNavBtn, pending, apiKey, storedApiKey,
                   conversationHistory, questionCount, correctionCount,
                   interviewShown, durationTimers, calls, resets, sessionStartTime, turnCall,
                   recVars, learnVars, toast>>

\* click on #startInterviewBtn, which lies on the student dashboard
StartInterviewBtnClick ==
    /\ "studentDashboard" \in activeScreens
    /\ StartInterviewClick

\* ids and data-section values that name no element of the markup
MissingScreen == "reportsScreen"
MissingSection == "reports"

\* showScreen(screenId) called with any id
ShowScreenCall ==
    /\ \E screenId \in Screens \cup {MissingScreen} :
          activeScreens' = showScreen(screenId)
    /\ UNCHANGED <<oldVars, oldExchVars, formVars,
                   navVars, apiKey, storedApiKey, conversationHistory,
                   questionCount, correctionCount, interviewShown,
                   durationTimers, calls, resets, sessionStartTime, turnCall, recVars,
                   learnVars, toast, uncaught>>

\* switchSection(sectionId) called with any id
SwitchSectionCall ==
    /\ \E sectionId \in AllSections \cup {MissingSection \o "Section"} :
          switchSection(sectionId)
    /\ UNCHANGED <<oldVars, oldExchVars, formVars,
                   lastNavBtn, authToken, currentUser,
                   storedAuthToken, pending,
                   authHeaders, recVars, learnVars, exchVars, toast, uncaught>>

\* click on a navigation button of the dashboard on screen whose
\* data-section names no section of that dashboard
NavBtnClickMissing ==
    /\ \E d \in Dashboards :
          /\ d \in activeScreens
          /\ navBtnClick(d, MissingSection)
          /\ lastNavBtn' = <<d, MissingSection>>
    /\ UNCHANGED <<oldVars, oldExchVars, formVars,
                   authToken, currentUser, storedAuthToken, pending,
                   recVars,
                   learnVars, exchVars, toast, uncaught>>

(***************************************************************************)
(* The forms of src/script.js: registration, the learning-session setup,   *)
(* the teacher's upload and the assignment form.  An input stands for the  *)
(* value the handler reads from its field: "" for a field left empty.      *)
(***************************************************************************)
FieldInputs == {"", "x"}
FormKinds == {"register", "createLearning", "createAssignment", "upload"}
FormPendingTotal ==
    formPending.register + formPending.createLearning
        + formPending.createAssignment + formPending.upload

\* how a form request ends: a success status, a non-success status with a
\* JSON body, or a rejected fetch
FormOutcomes == {"ok", "rejected", "network_error"}

\* handleRegister() up to its await
handleRegister(username, email, password) ==
    IF username = "" \/ email = "" \/ password = ""
    THEN /\ toast' = "error"
         /\ UNCHANGED formPending
    ELSE /\ PendingTotal + FormPendingTotal < MaxPending
         /\ formPending' = [formPending EXCEPT !.register = @ + 1]
         /\ UNCHANGED toast

\* click on #registerBtn of the authentication screen
RegisterBtnClick ==
    /\ "authScreen" \in activeScreens
    /\ \E username, email, password \in FieldInputs :
          handleRegister(username, email, password)
    /\ UNCHANGED <<oldVars, oldExchVars, learningSessionId, learningShown,
                   teacher_session_id, keysBefore, navVars, exchVars, recVars,
                   learnVars, uncaught>>

\* handleRegister() after its await
handleRegisterResume(o) ==
    /\ formPending.register > 0
    /\ formPending' = [formPending EXCEPT !.register = @ - 1]
    /\ toast' = IF o = "ok" THEN "success" ELSE "error"

\* the pending registration request ends
RegisterSettled ==
    /\ \E o \in FormOutcomes : handleRegisterResume(o)
    /\ UNCHANGED <<oldVars, oldExchVars, learningSessionId, learningShown,
                   teacher_session_id, keysBefore, navVars, exchVars, recVars,
                   learnVars, uncaught>>

\* startLearningSession() up to its await; building the request body reads
\* currentUser.user_id inside the try block
startLearningSession(topic, content) ==
    IF topic = "" \/ content = ""
    THEN /\ toast' = "error"
         /\ UNCHANGED <<activeScreens, formPending>>
    ELSE IF apiKey = ""
    THEN /\ toast' = "error"
         /\ activeScreens' = showScreen("apiSetup")
         /\ UNCHANGED formPending
    ELSE IF currentUser = "null"
    THEN /\ toast' = "error"
         /\ UNCHANGED <<activeScreens, formPending>>
    ELSE /\ PendingTotal + FormPendingTotal < MaxPending
         /\ formPending' = [formPending EXCEPT !.createLearning = @ + 1]
         /\ UNCHANGED <<activeScreens, toast>>

\* click on #startLearningBtn, which lies on the student dashboard
StartLearningBtnClick ==
    /\ "studentDashboard" \in activeScreens
    /\ \E topic, content \in FieldInputs : startLearningSession(topic, content)
    /\ UNCHANGED <<oldVars, oldExchVars, learningSessionId, learningShown,
                   teacher_session_id, keysBefore, navVars, apiKey,
                   storedApiKey, conversationHistory, questionCount,
                   correctionCount, interviewShown, durationTimers, calls,
                   resets, sessionStartTime, turnCall, recVars, learnVars, uncaught>>

\* the id /api/learning/create-session returns
LearningSessionId == "ls1"

\* how /api/learning/create-session ends: a success status with a session
\* id, a JSON body without session_id under a success or a non-success
\* status, a body that is not JSON, or a rejected fetch
LearningOutcomes == {"ok", "ok_no_id", "http_error", "bad_json", "network_error"}

\* startLearningSession() after its awaits
startLearningSessionResume(o) ==
    /\ formPending.createLearning > 0
    /\ formPending' = [formPending EXCEPT !.createLearning = @ - 1]
    /\ IF o \in {"bad_json", "network_error"}
       THEN /\ toast' = "error"
            /\ UNCHANGED <<learningSessionId, learningShown>>
       ELSE /\ learningSessionId' = IF o = "ok" THEN LearningSessionId
                                    ELSE Undefined
            /\ learningShown' = TRUE
            /\ toast' = "success"

\* the pending /api/learning/create-session request ends with o
CreateLearningSessionSettledAs(o) ==
    /\ startLearningSessionResume(o)
    /\ UNCHANGED <<oldVars, oldExchVars, teacher_session_id, keysBefore, navVars, exchVars,
                   recVars, learnVars, uncaught>>

\* the pending /api/learning/create-session request ends
CreateLearningSessionSettled ==
    \E o \in LearningOutcomes : CreateLearningSessionSettledAs(o)

\* uploadTeacherSession() up to its await, filesChosen iff #syllabusFile or
\* #pyqFile holds a file
uploadTeacherSession(filesChosen) ==
    IF ~filesChosen
    THEN /\ toast' = "error"
         /\ UNCHANGED formPending
    ELSE /\ PendingTotal + FormPendingTotal < MaxPending
         /\ formPending' = [formPending EXCEPT !.upload = @ + 1]
         /\ UNCHANGED toast

\* click on #uploadSessionBtn, which lies on the teacher dashboard
UploadSessionBtnClick ==
    /\ "teacherDashboard" \in activeScreens
    /\ \E filesChosen \in BOOLEAN : uploadTeacherSession(filesChosen)
    /\ UNCHANGED <<oldVars, oldExchVars, learningSessionId, learningShown,
                   teacher_session_id, keysBefore, navVars, exchVars, recVars,
                   learnVars, uncaught>>

\* the id /api/teacher/session/create returns
TeacherSessionId == "ts1"

\* uploadTeacherSession() after its awaits
uploadTeacherSessionResume(o) ==
    /\ formPending.upload > 0
    /\ formPending' = [formPending EXCEPT !.upload = @ - 1]
    /\ IF o = "ok"
       THEN /\ teacher_session_id' = TeacherSessionId
            /\ toast' = "success"
       ELSE /\ toast' = "error"
            /\ UNCHANGED teacher_session_id

\* the pending /api/teacher/session/create request ends
UploadSessionSettled ==
    /\ \E o \in FormOutcomes : uploadTeacherSessionResume(o)
    /\ UNCHANGED <<oldVars, oldExchVars, learningSessionId, learningShown, keysBefore,
                   navVars, exchVars, recVars, learnVars, uncaught>>

\* handleCreateAssignment(e) up to its await, title the value of
\* #assignTitle: the request is built from whatever the fields hold and
\* carries the bearer token
handleCreateAssignment(title) ==
    /\ PendingTotal + FormPendingTotal < MaxPending
    /\ formPending' = [formPending EXCEPT !.createAssignment = @ + 1]
    /\ authHeaders' = authHeaders \cup {authToken}
    /\ UNCHANGED toast

\* submit event of #assignmentForm, which lies on the teacher dashboard
AssignmentFormSubmit ==
    /\ "teacherDashboard" \in activeScreens
    /\ \E title \in FieldInputs : handleCreateAssignment(title)
    /\ UNCHANGED <<oldVars, oldExchVars, learningSessionId, learningShown,
                   teacher_session_id, keysBefore, authToken, currentUser,
                   storedAuthToken, activeSections, activeNavBtns, pending,
                   lastNavBtn, exchVars, recVars, learnVars, uncaught>>

\* handleCreateAssignment(e) after its awaits: loadTeacherPapers() sends a
\* bearer request
handleCreateAssignmentResume(o) ==
    /\ formPending.createAssignment > 0
    /\ formPending' = [formPending EXCEPT !.createAssignment = @ - 1]
    /\ IF o = "ok"
       THEN /\ toast' = "success"
            /\ authHeaders' = authHeaders \cup {authToken}
       ELSE /\ toast' = "error"
            /\ UNCHANGED authHeaders

\* the pending /api/teacher/create-assignment request ends
CreateAssignmentSettled ==
    /\ \E o \in FormOutcomes : handleCreateAssignmentResume(o)
    /\ UNCHANGED <<oldVars, oldExchVars, learningSessionId, learningShown,
                   teacher_session_id, keysBefore, authToken, currentUser,
                   storedAuthToken, activeSections, activeNavBtns, pending,
                   lastNavBtn, exchVars, recVars, learnVars, uncaught>>

(***************************************************************************)
(* The mode-based navigator of src/script_old.js.                          *)
(*                                                                         *)
(* script_old.js is the client of another page; its state is kept apart    *)
(* from that of script.js (names ending in _old where both scripts use the *)
(* same name).  Its screens are switched by removing 'active' from the     *)
(* screen a handler expects to be on and adding it to the next one.  The   *)
(* mode-choice buttons and #startBtn lie on the API setup screen, which    *)
(* the page shows first.                                                   *)
(***************************************************************************)
Screens_old == {"apiSetup", "teacherSetup", "mainScreen", "teacherMainScreen"}
AppModes == {"interviewer", "teacher"}
PendingKinds_old == {"testKey", "createSession", "greeting", "newGreeting"}
PendingTotal_old ==
    pending_old.testKey + pending_old.createSession + pending_old.greeting
        + pending_old.newGreeting

\* classList.remove('active') on element from, classList.add('active') on to
switchScreen_old(from, to) ==
    activeScreens_old' = (activeScreens_old \ {from}) \cup {to}

\* selectAppMode(mode)
selectAppMode(mode) == appMode' = mode

\* click on #interviewerModeBtn or #teacherModeBtn
ModeBtnClick ==
    /\ "apiSetup" \in activeScreens_old
    /\ \E mode \in AppModes : selectAppMode(mode)
    /\ UNCHANGED <<activeScreens_old, apiKey_old, pending_old,
                   durationIntervals_old, questionCount_old,
                   teacherSessionId, toast_old, recVars, learnVars,
                   exchVars, navVars, formVars, oldExchVars, toast, uncaught>>

\* handleStartSession() of script_old.js up to its await
handleStartSession_old(v) ==
    /\ apiKey_old' = trim(v)
    /\ IF apiKey_old' = ""
       THEN /\ toast_old' = "error"
            /\ UNCHANGED pending_old
       ELSE /\ PendingTotal_old < MaxPending
            /\ pending_old' = [pending_old EXCEPT !.testKey = @ + 1]
            /\ UNCHANGED toast_old

\* click on #startBtn
StartBtnClick_old ==
    /\ "apiSetup" \in activeScreens_old
    /\ \E v \in KeyInputs : handleStartSession_old(v)
    /\ UNCHANGED <<activeScreens_old, appMode, durationIntervals_old,
                   questionCount_old, teacherSessionId, recVars, learnVars,
                   exchVars, navVars, formVars, oldExchVars, toast, uncaught>>

\* startDurationTimer() of script_old.js: a new interval, none cleared
startDurationTimer_old(n) == n + 1

\* handleStartSession() of script_old.js after testApiKey(), up to the await
\* of sendInitialGreeting() in interviewer mode
handleStartSessionResume_old(isValid) ==
    /\ pending_old.testKey > 0
    /\ IF ~isValid
       THEN /\ toast_old' = "error"
            /\ pending_old' = [pending_old EXCEPT !.testKey = @ - 1]
            /\ UNCHANGED <<activeScreens_old, durationIntervals_old,
                           starts_old, sessionStartTime_old>>
       ELSE IF appMode = "teacher"
       THEN /\ switchScreen_old("apiSetup", "teacherSetup")
            /\ pending_old' = [pending_old EXCEPT !.testKey = @ - 1]
            /\ UNCHANGED <<durationIntervals_old, toast_old, starts_old,
                           sessionStartTime_old>>
       ELSE /\ durationIntervals_old < MaxIntervals
            /\ switchScreen_old("apiSetup", "mainScreen")
            /\ starts_old' = starts_old + 1
            /\ sessionStartTime_old' = now(starts_old')
            /\ durationIntervals_old' =
                  startDurationTimer_old(durationIntervals_old)
            /\ pending_old' = [pending_old EXCEPT !.testKey = @ - 1,
                                                  !.greeting = @ + 1]
            /\ UNCHANGED toast_old

\* the pending /api/test-key request of script_old.js ends
TestKeySettled_old ==
    /\ \E isValid \in BOOLEAN : handleStartSessionResume_old(isValid)
    /\ UNCHANGED <<appMode, apiKey_old, questionCount_old, teacherSessionId,
                   conversationHistory_old, correctionCount_old,
                   mediaStream_old, tasks_old, recVars, learnVars, exchVars,
                   navVars, formVars, toast, uncaught>>

\* sendInitialGreeting() of script_old.js after its await, then the rest of
\* the handleStartSession() that awaited it
sendInitialGreetingResume_old ==
    /\ pending_old.greeting > 0
    /\ pending_old' = [pending_old EXCEPT !.greeting = @ - 1]
    /\ questionCount_old' = questionCount_old + 1
    /\ toast_old' = "success"

\* the greeting's /api/generate request ends
GreetingSettled_old ==
    /\ sendInitialGreetingResume_old
    /\ UNCHANGED <<activeScreens_old, appMode, apiKey_old,
                   durationIntervals_old, teacherSessionId, recVars,
                   learnVars, exchVars, navVars, formVars, oldExchVars, toast, uncaught>>

\* startTeachingSession() up to its await; filesChosen: a PDF was selected
startTeachingSession(filesChosen) ==
    IF apiKey_old = "" \/ ~filesChosen
    THEN /\ toast_old' = "error"
         /\ UNCHANGED pending_old
    ELSE /\ PendingTotal_old < MaxPending
         /\ pending_old' = [pending_old EXCEPT !.createSession = @ + 1]
         /\ UNCHANGED toast_old

\* click on #startTeachingBtn of the teacher setup screen
StartTeachingBtnClick ==
    /\ "teacherSetup" \in activeScreens_old
    /\ \E filesChosen \in BOOLEAN : startTeachingSession(filesChosen)
    /\ UNCHANGED <<activeScreens_old, appMode, apiKey_old,
                   durationIntervals_old, questionCount_old,
                   teacherSessionId, recVars, learnVars, exchVars, navVars, formVars, oldExchVars,
                   toast, uncaught>>

\* startTeachingSession() after its await
startTeachingSessionResume(ok) ==
    /\ pending_old.createSession > 0
    /\ pending_old' = [pending_old EXCEPT !.createSession = @ - 1]
    /\ IF ok
       THEN /\ teacherSessionId' = "s1"
            /\ switchScreen_old("teacherSetup", "teacherMainScreen")
            /\ toast_old' = "success"
       ELSE /\ toast_old' = "error"
            /\ UNCHANGED <<teacherSessionId, activeScreens_old>>

\* the pending /api/teacher/session/create request ends
CreateSessionSettled_old ==
    /\ \E ok \in BOOLEAN : startTeachingSessionResume(ok)
    /\ UNCHANGED <<appMode, apiKey_old, durationIntervals_old,
                   questionCount_old, recVars, learnVars, exchVars, navVars, formVars, oldExchVars,
                   toast, uncaught>>

\* backToModeSelection(): click on #backToModeBtn of the teacher setup screen
backToModeSelection ==
    /\ "teacherSetup" \in activeScreens_old
    /\ switchScreen_old("teacherSetup", "apiSetup")
    /\ UNCHANGED <<appMode, apiKey_old, pending_old, durationIntervals_old,
                   questionCount_old, teacherSessionId, toast_old, recVars,
                   learnVars, exchVars, navVars, formVars, oldExchVars, toast, uncaught>>

\* startNewTeachingSession(): click on #newTeachingSessionBtn of the teacher
\* main screen, confirmed or not
startNewTeachingSession ==
    /\ "teacherMainScreen" \in activeScreens_old
    /\ \E confirmed \in BOOLEAN :
          IF confirmed
          THEN /\ switchScreen_old("teacherMainScreen", "teacherSetup")
               /\ teacherSessionId' = "null"
          ELSE UNCHANGED <<activeScreens_old, teacherSessionId>>
    /\ UNCHANGED <<appMode, apiKey_old, pending_old, durationIntervals_old,
                   questionCount_old, toast_old, recVars, learnVars,
                   exchVars, navVars, formVars, oldExchVars, toast, uncaught>>

(***************************************************************************)
(* The exchange loop of src/script_old.js for recognized utterances.       *)
(*                                                                         *)
(* recognition.onresult awaits analyzeAndProcessResponse(transcript),      *)
(* which awaits getUserMedia (when no stream is held), analyzeTone and     *)
(* processUserResponse inside one try block, and processUserResponse once  *)
(* more in its catch block.  The record button lies on the main screen.    *)
(***************************************************************************)
TaskIds == 1..MaxUtterances

\* the calls of analyzeAndProcessResponse suspended at an await named in ats
TasksAt(ats) == {k \in DOMAIN tasks_old : tasks_old[k].at \in ats}

\* analyzeAndProcessResponse(userMessage) up to its first await: of
\* getUserMedia when no stream is held, else of the fetch of analyzeTone
analyzeAndProcessResponse(userMessage) ==
    tasks_old' = Append(tasks_old,
                        [userMessage |-> userMessage,
                         at |-> IF mediaStream_old = "null" THEN "getUserMedia"
                                ELSE "analyzeTone",
                         userTurns |-> 0,
                         exchangeTurns |-> 0])

\* recognition.onresult of script_old.js with a final result
RecognitionOnResult_old ==
    /\ "mainScreen" \in activeScreens_old
    /\ Len(tasks_old) < MaxUtterances
    /\ \E transcript \in Transcripts : analyzeAndProcessResponse(transcript)
    /\ UNCHANGED <<oldVars, conversationHistory_old, correctionCount_old,
                   sessionStartTime_old, starts_old, mediaStream_old,
                   recVars, learnVars, exchVars, navVars, formVars, toast,
                   uncaught>>

\* processUserResponse(userMessage, toneAnalysis) of script_old.js up to its
\* await, called by task k when conversationHistory is history; the task is
\* then suspended at the await named at
processUserResponse_old(history, k, toneAnalysis, at) ==
    /\ conversationHistory_old' =
          Append(history, [role |-> "user",
                           content |-> tasks_old[k].userMessage,
                           tone |-> toneAnalysis])
    /\ tasks_old' = [tasks_old EXCEPT ![k].at = at,
                                      ![k].userTurns = @ + 1,
                                      ![k].exchangeTurns = @ + 1]

\* analyzeAndProcessResponse after getUserMedia: with the stream it goes on
\* to analyzeTone, on a rejection to processUserResponse in the catch block
analyzeAndProcessResponseResume(k, granted) ==
    /\ k \in TasksAt({"getUserMedia"})
    /\ IF granted
       THEN /\ mediaStream_old' = "stream"
            /\ tasks_old' = [tasks_old EXCEPT ![k].at = "analyzeTone"]
            /\ UNCHANGED conversationHistory_old
       ELSE /\ processUserResponse_old(conversationHistory_old, k, "null",
                                       "generateInCatch")
            /\ UNCHANGED mediaStream_old

\* a pending getUserMedia of script_old.js is settled
GetUserMediaSettled_old ==
    /\ \E k \in TaskIds, granted \in BOOLEAN :
          analyzeAndProcessResponseResume(k, granted)
    /\ UNCHANGED <<oldVars, correctionCount_old, sessionStartTime_old,
                   starts_old, recVars, learnVars, exchVars, navVars,
                   formVars, toast, uncaught>>

\* how /api/analyze-tone ends
ToneOutcomes == {"ok", "http_error", "network_error"}

\* analyzeTone(transcript): the value it returns when the fetch ends as o
analyzeTone(o) == IF o = "ok" THEN "analysis" ELSE "null"

\* the fetch of analyzeTone ends: processUserResponse is called in the try
\* block
ToneSettled_old ==
    /\ \E k \in TaskIds, o \in ToneOutcomes :
          /\ k \in TasksAt({"analyzeTone"})
          /\ processUserResponse_old(conversationHistory_old, k,
                                     analyzeTone(o), "generate")
    /\ UNCHANGED <<oldVars, correctionCount_old, sessionStartTime_old,
                   starts_old, mediaStream_old, recVars, learnVars, exchVars,
                   navVars, formVars, toast, uncaught>>

\* callGeminiAPI(prompt) of script_old.js: the value it returns
callGeminiAPI_old(o) ==
    IF o \in FailureOutcomes THEN Apology
    ELSE IF o = "no_response_field" THEN Undefined
    ELSE o

\* processUserResponse of script_old.js after its await, in task k.  When
\* response.toLowerCase() throws inside the try block of
\* analyzeAndProcessResponse, the catch block calls processUserResponse
\* again; when it throws in the catch block, the promise of onresult is
\* rejected.
processUserResponseResume_old(k, o) ==
    LET response == callGeminiAPI_old(o)
        pushed == Append(conversationHistory_old,
                         [role |-> "assistant", content |-> response])
    IN
    /\ k \in TasksAt({"generate", "generateInCatch"})
    /\ toast_old' = IF o \in FailureOutcomes THEN "error" ELSE toast_old
    /\ IF response # Undefined
       THEN /\ conversationHistory_old' = pushed
            /\ correctionCount_old' =
                  IF hasCorrection(response) THEN correctionCount_old + 1
                  ELSE correctionCount_old
            /\ questionCount_old' = questionCount_old + 1
            /\ tasks_old' = [tasks_old EXCEPT ![k].at = "done"]
            /\ UNCHANGED uncaught
       ELSE IF tasks_old[k].at = "generate"
       THEN /\ processUserResponse_old(pushed, k, "null", "generateInCatch")
            /\ UNCHANGED <<correctionCount_old, questionCount_old, uncaught>>
       ELSE /\ conversationHistory_old' = pushed
            /\ tasks_old' = [tasks_old EXCEPT ![k].at = "rejected"]
            /\ uncaught' = uncaught \cup {"recognition.onresult"}
            /\ UNCHANGED <<correctionCount_old, questionCount_old>>

\* a pending /api/generate request of an exchange turn of script_old.js ends
CompletionSettled_old ==
    /\ \E k \in TaskIds, o \in Outcomes : processUserResponseResume_old(k, o)
    /\ UNCHANGED <<activeScreens_old, appMode, apiKey_old, pending_old,
                   durationIntervals_old, teacherSessionId,
                   sessionStartTime_old, starts_old, mediaStream_old,
                   recVars, learnVars, exchVars, navVars, formVars, toast>>

\* startNewInterview() of script_old.js, confirmed the answer to confirm()
startNewInterview_old(confirmed) ==
    IF confirmed
    THEN /\ starts_old < MaxStarts
         /\ PendingTotal_old < MaxPending
         /\ conversationHistory_old' = <<>>
         /\ questionCount_old' = 0
         /\ correctionCount_old' = 0
         /\ starts_old' = starts_old + 1
         /\ sessionStartTime_old' = now(starts_old')
         /\ pending_old' = [pending_old EXCEPT !.newGreeting = @ + 1]
         /\ toast_old' = "success"
    ELSE UNCHANGED <<conversationHistory_old, questionCount_old,
                     correctionCount_old, starts_old, sessionStartTime_old,
                     pending_old, toast_old>>

\* click on #newInterviewBtn of the main screen, the dialog answered
NewInterviewBtnClickAs_old(confirmed) ==
    /\ "mainScreen" \in activeScreens_old
    /\ startNewInterview_old(confirmed)
    /\ UNCHANGED <<activeScreens_old, appMode, apiKey_old,
                   durationIntervals_old, teacherSessionId, mediaStream_old,
                   tasks_old, recVars, learnVars, exchVars, navVars,
                   formVars, toast, uncaught>>

\* click on #newInterviewBtn of the main screen
NewInterviewBtnClick_old ==
    \E confirmed \in BOOLEAN : NewInterviewBtnClickAs_old(confirmed)

\* sendInitialGreeting() of script_old.js after its await, called by
\* startNewInterview(); failed: callGeminiAPI showed its error notice
NewGreetingSettled_old ==
    /\ pending_old.newGreeting > 0
    /\ pending_old' = [pending_old EXCEPT !.newGreeting = @ - 1]
    /\ questionCount_old' = questionCount_old + 1
    /\ \E failed \in BOOLEAN :
          toast_old' = IF failed THEN "error" ELSE toast_old
    /\ UNCHANGED <<activeScreens_old, appMode, apiKey_old,
                   durationIntervals_old, teacherSessionId, oldExchVars,
                   recVars, learnVars, exchVars, navVars, formVars, toast,
                   uncaught>>

(***************************************************************************)
(* Specifications.                                                         *)
(***************************************************************************)
\* the page's state apart from session and navigator, once the
\* DOMContentLoaded handler has run
InitPage ==
    /\ recognition \in {"null", "object"}
    /\ recognizer = "inactive"
    /\ isRecording = FALSE
    /\ recordBtn = FALSE
    /\ isLearningRecording = FALSE
    /\ learningMediaRecorder = 0
    /\ mediaStream = 0
    /\ learningAudioChunks = <<>>
    /\ learningMicBtn = FALSE
    /\ gumPending = 0
    /\ allocated = 0
    /\ streamLive = {}
    /\ recorderState = [s \in StreamIds |-> "none"]
    /\ audioBlobs = <<>>
    /\ activeSections = {"assignmentsSection", "papersSection"}
    /\ activeNavBtns = {<<"studentDashboard", "assignments">>,
                        <<"teacherDashboard", "papers">>}
    /\ lastNavBtn = <<>>
    /\ learningSessionId = "null"
    /\ learningShown = FALSE
    /\ teacher_session_id = Undefined
    /\ formPending = [k \in FormKinds |-> 0]
    /\ keysBefore = [k \in KeyValues |-> 0]
    /\ toast = ""
    /\ uncaught = {}

\* the page of script_old.js once its DOMContentLoaded handler has run
InitPage_old ==
    /\ activeScreens_old = {"apiSetup"}
    /\ appMode = "interviewer"
    /\ apiKey_old = ""
    /\ pending_old = [k \in PendingKinds_old |-> 0]
    /\ durationIntervals_old = 0
    /\ questionCount_old = 0
    /\ teacherSessionId = "null"
    /\ toast_old = ""
    /\ conversationHistory_old = <<>>
    /\ correctionCount_old = 0
    /\ sessionStartTime_old = 0
    /\ starts_old = 0
    /\ mediaStream_old = "null"
    /\ tasks_old = <<>>

\* the k-th turn of an interview of script_old.js in which every exchange
\* turn completed before the next utterance
Turn_old(k) ==
    IF k % 2 = 1
    THEN [role |-> "user", content |-> "answer " \o ToString((k + 1) \div 2),
          tone |-> "analysis"]
    ELSE [role |-> "assistant", content |-> "question " \o ToString(k \div 2 + 1)]

\* the page of script_old.js after handleStartSession() ran to its end in
\* interviewer mode (the key was accepted and the greeting was received)
\* and n recognized utterances were answered, with the tone analysis of a
\* stream that getUserMedia granted
InitInterviewUnderWay_old(n) ==
    /\ activeScreens_old = {"mainScreen"}
    /\ appMode = "interviewer"
    /\ apiKey_old = "sk-1"
    /\ pending_old = [k \in PendingKinds_old |-> 0]
    /\ durationIntervals_old = startDurationTimer_old(0)
    /\ questionCount_old = n + 1
    /\ teacherSessionId = "null"
    /\ toast_old = "success"
    /\ conversationHistory_old = [k \in 1..(2 * n) |-> Turn_old(k)]
    /\ correctionCount_old = 0
    /\ starts_old = 1
    /\ sessionStartTime_old = now(starts_old)
    /\ mediaStream_old = IF n = 0 THEN "null" ELSE "stream"
    /\ tasks_old = <<>>

\* no interview was started yet; the DOMContentLoaded handler took the
\* stored API key
InitInterview ==
    /\ storedApiKey \in {"", "sk-1"}
    /\ apiKey = storedApiKey
    /\ conversationHistory = <<>>
    /\ questionCount = 0
    /\ correctionCount = 0
    /\ interviewShown = FALSE
    /\ durationTimers = 0
    /\ calls = <<>>
    /\ resets = 0
    /\ sessionStartTime = 0
    /\ turnCall = <<>>

\* the k-th turn of an interview in which every exchange turn completed
\* before the next utterance
Turn(k) ==
    IF k % 2 = 1
    THEN [role |-> "user", content |-> "answer " \o ToString((k + 1) \div 2)]
    ELSE [role |-> "assistant", content |-> "question " \o ToString(k \div 2 + 1)]

\* an interview started by startInterview() is under way: the greeting and
\* n exchange turns have completed, none is pending
InitInterviewUnderWay ==
    /\ storedApiKey \in {"", "sk-1"}
    /\ apiKey = "sk-1"
    /\ \E n \in 0..(MaxTurns \div 2) :
          /\ conversationHistory = [k \in 1..(2 * n) |-> Turn(k)]
          /\ questionCount = n + 1
          /\ turnCall = [k \in 1..(2 * n) |-> 0]
    /\ correctionCount = 0
    /\ interviewShown = TRUE
    /\ durationTimers = 1
    /\ calls = <<>>
    /\ resets = 1
    /\ sessionStartTime = now(resets)

\* a student is signed in: the stored token was verified and loadDashboard()
\* ran (the state the interview and the learning view are used in)
InitSignedIn ==
    /\ authToken = Token
    /\ currentUser = "student"
    /\ storedAuthToken = Token
    /\ activeScreens = {"studentDashboard"}
    /\ pending = [k \in PendingKinds |-> 0]
    /\ authHeaders = {Token}

\* both pages loaded, a student signed in on the page of script.js
Init ==
    /\ InitPage
    /\ InitPage_old
    /\ InitInterview
    /\ InitSignedIn

\* the page was loaded: checkAuth() ran up to its await, or to its end when
\* no token is stored (which screen the markup shows before the first
\* showScreen is not fixed by the sources)
InitPageLoad ==
    /\ InitPage
    /\ InitPage_old
    /\ InitInterview
    /\ authToken = "null"
    /\ currentUser = "null"
    /\ storedAuthToken \in {"null", Token}
    /\ IF storedAuthToken = "null"
       THEN /\ activeScreens = showScreen("authScreen")
            /\ pending = [k \in PendingKinds |-> 0]
            /\ authHeaders = {}
       ELSE /\ activeScreens \in {{}, {"authScreen"}}
            /\ pending = [k \in PendingKinds |-> IF k = "verify" THEN 1 ELSE 0]
            /\ authHeaders = {storedAuthToken}

\* a student is signed in and in the middle of an interview
InitPrompt ==
    /\ InitPage
    /\ InitPage_old
    /\ InitInterviewUnderWay
    /\ InitSignedIn

\* the interview of the page of script_old.js is under way
InitExchange_old ==
    /\ InitPage
    /\ InitInterviewUnderWay_old(0)
    /\ InitInterview
    /\ InitSignedIn

\* interviews are under way on both pages
InitSessionStart ==
    /\ InitPage
    /\ InitSignedIn
    /\ InitInterviewUnderWay
    /\ \E n \in 0..1 : InitInterviewUnderWay_old(n)

\* the two recording controllers
NextRecording ==
    \/ toggleRecording
    \/ StartRecordingCall
    \/ StopRecordingCall
    \/ RecognizerStarted
    \/ RecognitionOnError
    \/ RecognizerEnded
    \/ RecognizerEndedByItself
    \/ toggleLearningRecording
    \/ StartLearningRecordingCall
    \/ StopLearningRecordingCall
    \/ GetUserMediaSettled
    \/ RecorderStopTask

SpecRecording == Init /\ [][NextRecording]_vars

\* the exchange loop, with the interview recognizer that feeds it
NextExchange ==
    \/ toggleRecording
    \/ RecognizerStarted
    \/ RecognitionOnError
    \/ RecognizerEnded
    \/ RecognizerEndedByItself
    \/ RecognitionOnResult
    \/ SendBtnClick
    \/ ChatInputKeypress
    \/ StartInterviewClick
    \/ NewInterviewClick
    \/ CompletionSettled

SpecExchange == Init /\ [][NextExchange]_vars

\* exchange turns of the chat mode, from an interview under way
NextPrompt ==
    \/ SendBtnClick
    \/ ChatInputKeypress
    \/ CompletionSettled

SpecPrompt == InitPrompt /\ [][NextPrompt]_vars

\* session store and navigator, by the controls of the page
NextNavigator ==
    \/ LoginBtnClick
    \/ LoginSettled
    \/ LogoutBtnClick
    \/ LogoutSettled
    \/ VerifySettled
    \/ StartInterviewBtnClick
    \/ StartBtnClick
    \/ TestKeySettled
    \/ BackBtnClick
    \/ NavBtnClick
    \/ ViewSubmissionsClick

SpecNavigator == InitPageLoad /\ [][NextNavigator]_vars

\* the navigator's transitions, called also with ids that name no element
NextNavigatorCalls ==
    \/ ShowScreenCall
    \/ SwitchSectionCall
    \/ NavBtnClick
    \/ NavBtnClickMissing
    \/ ViewSubmissionsClick

SpecNavigatorCalls == InitPageLoad /\ [][NextNavigatorCalls]_vars

\* the navigator of script_old.js
NextNavigator_old ==
    \/ ModeBtnClick
    \/ StartBtnClick_old
    \/ TestKeySettled_old
    \/ GreetingSettled_old
    \/ StartTeachingBtnClick
    \/ CreateSessionSettled_old
    \/ backToModeSelection
    \/ startNewTeachingSession

SpecNavigator_old == Init /\ [][NextNavigator_old]_vars

\* the exchange loop of script_old.js in interviewer mode
NextExchange_old ==
    \/ RecognitionOnResult_old
    \/ GetUserMediaSettled_old
    \/ ToneSettled_old
    \/ CompletionSettled_old
    \/ NewInterviewBtnClick_old
    \/ NewGreetingSettled_old

SpecExchange_old == InitExchange_old /\ [][NextExchange_old]_vars

\* interview starts and restarts on both pages
NextSessionStart ==
    \/ StartInterviewClick
    \/ NewInterviewClick
    \/ CompletionSettled
    \/ NewInterviewBtnClick_old
    \/ NewGreetingSettled_old

SpecSessionStart == InitSessionStart /\ [][NextSessionStart]_vars

\* the forms of script.js, from the page load on
NextForms ==
    \/ VerifySettled
    \/ LoginBtnClick
    \/ LoginSettled
    \/ RegisterBtnClick
    \/ RegisterSettled
    \/ StartLearningBtnClick
    \/ CreateLearningSessionSettled
    \/ StartBtnClick
    \/ TestKeySettled
    \/ BackBtnClick
    \/ UploadSessionBtnClick
    \/ UploadSessionSettled
    \/ AssignmentFormSubmit
    \/ CreateAssignmentSettled

SpecForms == InitPageLoad /\ [][NextForms]_vars

Next ==
    \/ NextNavigator_old
    \/ NextRecording
    \/ NextExchange
    \/ SaveApiKeyClick
    \/ NextNavigator
    \/ NextNavigatorCalls
    \/ NextForms
    \/ NextExchange_old

Spec == Init /\ [][Next]_vars

(***************************************************************************)
(* Properties.                                                             *)
(***************************************************************************)
\* no callback of a recording controller is still due
Quiescent ==
    /\ recognizer \in {"inactive", "running"}
    /\ gumPending = 0
    /\ \A s \in StreamIds : recorderState[s] # "stopping"

IdleInterview == ~isRecording /\ recognizer = "inactive"
ActiveInterview == isRecording /\ recognizer = "running"

IdleLearning ==
    /\ ~isLearningRecording
    /\ gumPending = 0
    /\ streamLive = {}
    /\ \A s \in StreamIds : recorderState[s] \in {"none", "inactive"}
ActiveLearning ==
    /\ isLearningRecording
    /\ learningMediaRecorder # 0
    /\ recorderState[learningMediaRecorder] = "recording"

\* a step in which stopLearningRecording() / stopRecording() runs to its end
StopLearningStep ==
    /\ \/ StopLearningRecordingCall
       \/ isLearningRecording /\ toggleLearningRecording
    /\ uncaught' = uncaught
StopInterviewStep ==
    \/ StopRecordingCall
    \/ isRecording /\ toggleRecording

\* C1: once every pending callback has run, each controller's recording flag
\* is set if and only if its capture resource (the running recognizer, a live
\* microphone stream) is held.
C1_FlagIffResourceHeld ==
    Quiescent =>
        /\ isRecording <=> recognizer = "running"
        /\ isLearningRecording <=> streamLive # {}

\* C2: after stop() has completed, no capture resource the controller
\* acquired is still held: no microphone stream is live after
\* stopLearningRecording(), and the recognizer is no longer capturing after
\* stopRecording().
C2_StopReleasesResource ==
    [][/\ StopLearningStep => streamLive' = {}
       /\ StopInterviewStep => recognizer' \notin {"starting", "running"}]_vars

\* the interview was started, the completion calls of its last reset are the
\* only calls ever made, and all of them have completed
OnlyCurrentSessionAllDone ==
    /\ interviewShown
    /\ resets >= 1
    /\ \A i \in DOMAIN calls :
          calls[i].session = resets /\ calls[i].status = "done"

UserCalls == {i \in DOMAIN calls : calls[i].kind = "user"}

\* C3: after the greeting and k completed user turns since the last reset,
\* ConversationHistory has 1 + 2k entries.
C3_HistoryLength ==
    OnlyCurrentSessionAllDone =>
        Len(conversationHistory) = 1 + 2 * Cardinality(UserCalls)

\* the two characters are the same letter, whatever their case
SameLetter(a, b) ==
    a = b \/ \E k \in 1..26 : {a, b} = {UpperCase[k], LowerCase[k]}

\* the text contains 'correction:' case-insensitively
MarksCorrection(text) ==
    /\ text # Undefined
    /\ LET cs == Chars(text)
           m == Chars("correction:")
       IN \E i \in 0..(Len(cs) - Len(m)) :
             \A j \in 1..Len(m) : SameLetter(cs[i + j], m[j])

CorrectionTurns ==
    {i \in DOMAIN conversationHistory :
        /\ conversationHistory[i].role = "assistant"
        /\ MarksCorrection(conversationHistory[i].content)}

\* C4: in every reachable state correctionCount is the number of assistant
\* turns of the current ConversationHistory whose text contains
\* 'correction:' case-insensitively, also when a reset happened while an
\* exchange turn was in flight.
C4_CorrectionCount == correctionCount = Cardinality(CorrectionTurns)

\* C4's case: a turn issued before the last reset completed after it with a
\* correction, which was counted
C4_Witness ==
    /\ correctionCount >= 1
    /\ \E j \in CorrectionTurns :
          /\ calls[turnCall[j]].session < resets
          /\ calls[turnCall[j]].status = "done"

\* C5: when the completion call of processUserResponse rejects or returns a
\* non-success status, the call still appends exactly one assistant turn,
\* the fallback apology, and increments questionCount by exactly 1.
C5_FailureAppendsApology ==
    [][\A i \in CallIds, o \in FailureOutcomes :
          (i \in Pending /\ calls[i].kind = "user" /\ CompletionSettledAs(i, o))
          => /\ conversationHistory' =
                   Append(conversationHistory,
                          [role |-> "assistant", content |-> Apology])
             /\ questionCount' = questionCount + 1]_vars

\* C5's case: a user turn was answered by the apology after a failed call
C5_Witness ==
    /\ toast = "error"
    /\ questionCount >= 1
    /\ \E j \in DOMAIN conversationHistory :
          /\ j > 1
          /\ conversationHistory[j] = [role |-> "assistant", content |-> Apology]
          /\ conversationHistory[j - 1].role = "user"

\* C6: after startInterview() with an API key and the greeting call
\* returned, with no utterance processed, exactly one completion call was
\* made, ConversationHistory is one assistant turn holding the returned
\* text, questionCount is 1 and correctionCount is 0.
C6_AfterGreeting ==
    (interviewShown /\ resets = 1 /\ Pending = {} /\ UserCalls = {}) =>
        /\ Len(calls) = 1
        /\ Len(conversationHistory) = 1
        /\ conversationHistory[1].role = "assistant"
        /\ conversationHistory[1].content
              \in {callGeminiAPI(o) : o \in Outcomes}
        /\ questionCount = 1
        /\ correctionCount = 0

\* C7: at most one completion request issued by processUserResponse or
\* sendInitialGreeting awaits its response at any time.
C7_AtMostOneInFlight == Cardinality(Pending) <= 1

\* C8: the turns of an exchange call issued earlier all precede, in
\* ConversationHistory, every turn of a call issued later.
C8_TurnsInCallOrder ==
    \A i, j \in DOMAIN turnCall : i < j => turnCall[i] <= turnCall[j]

\* C9: at most one recording session of a kind is active: at most one
\* MediaRecorder is recording and at most one microphone stream is live.
C9_AtMostOneRecording ==
    /\ Cardinality({s \in StreamIds : recorderState[s] = "recording"}) <= 1
    /\ Cardinality(streamLive) <= 1

\* C10: stop() on an Idle controller changes nothing and raises no error;
\* start() on an Active controller leaves it Active and acquires no second
\* capture resource.
C10_Idempotence ==
    [][/\ (IdleInterview /\ StopRecordingCall) => UNCHANGED <<recVars, uncaught>>
       /\ (IdleLearning /\ StopLearningRecordingCall)
             => UNCHANGED <<learnVars, uncaught>>
       /\ (ActiveInterview /\ StartRecordingCall) => ActiveInterview'
       /\ (ActiveLearning /\ (StartLearningRecordingCall \/ GetUserMediaSettled))
             => (ActiveLearning' /\ allocated' = allocated)]_vars

\* outcomes of startLearningRecording() in which start() failed
GumFailures == {"denied", "constructorThrows", "startThrows"}

\* C17: when start() of a Recording Controller fails (getUserMedia denied,
\* the MediaRecorder constructor or its start() throwing, recognition.start()
\* throwing, the recognizer reporting an error), the controller ends Idle, an
\* error notice is shown and the stream acquired by that start is not live.
C17_StartFailureRecovers ==
    [][/\ \A o \in GumFailures :
             (/\ ~isLearningRecording
              /\ streamLive = {}
              /\ startLearningRecordingResume(o))
             => /\ ~isLearningRecording'
                /\ toast' = "error"
                /\ streamLive' = {}
       /\ (/\ ~isRecording
           /\ recognition # "null"
           /\ recognitionStartThrows(recognizer)
           /\ (StartRecordingCall \/ toggleRecording))
          => (~isRecording' /\ toast' = "error")
       /\ (recognizer = "starting" /\ RecognitionOnError)
          => (~isRecording' /\ toast' = "error")]_vars

\* C18: every artifact handed to saveLearningAudio holds exactly the audio of
\* one start-then-stop cycle, and no cycle is emitted twice, also when a new
\* recording starts before the previous recorder's stop callback has run.
C18_OneArtifactPerCycle ==
    \A k \in DOMAIN audioBlobs :
        /\ Len(audioBlobs[k]) = 1
        /\ \A j \in DOMAIN audioBlobs : audioBlobs[j] = audioBlobs[k] => j = k

\* C19: no continuation of processUserResponse or sendInitialGreeting ends
\* with an exception, whatever the outcome of the completion call.
C19_LoopNeverRaises ==
    uncaught \cap {"processUserResponse", "sendInitialGreeting"} = {}

StudentSections == activeSections \cap SectionsOf["studentDashboard"]
StudentNavBtns == activeNavBtns \cap BtnsOf("studentDashboard")
TeacherSections == activeSections \cap SectionsOf["teacherDashboard"]
TeacherNavBtns == activeNavBtns \cap BtnsOf("teacherDashboard")

\* the 'papers' button of the teacher dashboard is clicked
PapersNavBtnClick ==
    /\ NavBtnClick
    /\ lastNavBtn' = <<"teacherDashboard", "papers">>
    /\ navBtnClick("teacherDashboard", "papers")

\* C11: a click on the navigation button 'papers' of the teacher dashboard
\* leaves the active state of every content section and navigation button
\* of the student dashboard as it was.
C11_PapersLeavesStudentDashboard ==
    [][PapersNavBtnClick =>
          /\ StudentSections' = StudentSections
          /\ StudentNavBtns' = StudentNavBtns]_vars

\* C11's case: 'papers' was clicked on the teacher dashboard while the
\* student dashboard had its interview section and button active, and both
\* still are
C11_Witness ==
    /\ lastNavBtn = <<"teacherDashboard", "papers">>
    /\ TeacherSections = {"papersSection"}
    /\ StudentSections = {"interviewSection"}
    /\ StudentNavBtns = {<<"studentDashboard", "interview">>}

\* C12: a section activation, by a navigation button or by switchSection()
\* in viewSubmissions(), changes the active state of sections and buttons of
\* the activated section's dashboard only.
C12_ActivationScoped ==
    [][/\ \A d \in Dashboards :
             (NavBtnClick /\ lastNavBtn'[1] = d)
             => \A e \in Dashboards \ {d} :
                   /\ activeSections' \cap SectionsOf[e]
                         = activeSections \cap SectionsOf[e]
                   /\ activeNavBtns' \cap BtnsOf(e) = activeNavBtns \cap BtnsOf(e)
       /\ ViewSubmissionsClick
             => /\ StudentSections' = StudentSections
                /\ StudentNavBtns' = StudentNavBtns]_vars

\* a navigator call whose target names no element
MissingTargetCall ==
    \/ ShowScreenCall /\ activeScreens' = showScreen(MissingScreen)
    \/ SwitchSectionCall /\ activeSections' = {}
    \/ NavBtnClickMissing

\* C14: a navigator transition to a screen or section id that is not in the
\* document does not throw and leaves the active screens, sections and
\* navigation buttons as they were.
C14_MissingTargetNoOp ==
    [][MissingTargetCall =>
          UNCHANGED <<activeScreens, activeSections, activeNavBtns, uncaught>>]_vars

\* C15: when handleLogout() has completed, authToken and currentUser are
\* null and the in-memory API key is empty.
C15_LogoutClearsSession ==
    [][LogoutSettled =>
          /\ authToken' = "null"
          /\ currentUser' = "null"
          /\ apiKey' = ""]_vars

\* C16: every request that carries an Authorization header was built from a
\* token that was set.
C16_BearerNeedsToken == "null" \notin authHeaders

\* C20: a dashboard is the active screen only while authToken and
\* currentUser are set, and when no token is set and no request is pending
\* the authentication screen is the active screen.
C20_DashboardNeedsSession ==
    /\ activeScreens \cap Dashboards # {}
          => (authToken # "null" /\ currentUser # "null")
    /\ (authToken = "null" /\ PendingTotal = 0)
          => activeScreens = {"authScreen"}

\* C13: every navigator call that completes with one top-level screen active
\* before it leaves exactly one active: in script.js the calls that end in
\* showScreen() or loadDashboard(), in script_old.js handleStartSession().
C13_ExactlyOneScreen ==
    [][/\ (Cardinality(activeScreens) = 1 /\ NextNavigator)
             => Cardinality(activeScreens') = 1
       /\ (Cardinality(activeScreens_old) = 1 /\ TestKeySettled_old)
             => Cardinality(activeScreens_old') = 1]_vars

\* C24: whenever no callback of a recording controller is pending, the
\* 'recording' class on a controller's button is set if and only if the
\* controller's recording flag is set.
C24_IndicatorIffFlag ==
    Quiescent =>
        /\ recordBtn <=> isRecording
        /\ learningMicBtn <=> isLearningRecording

\* C25: the response of a completion call issued before the last interview
\* reset leaves ConversationHistory, questionCount and correctionCount of
\* the new session as they are.
C25_StaleResponseIgnored ==
    [][\A i \in CallIds, o \in Outcomes :
          (/\ i \in Pending
           /\ calls[i].session < resets
           /\ CompletionSettledAs(i, o))
          => UNCHANGED <<conversationHistory, questionCount, correctionCount>>]_vars

\* C26: at most one session-duration interval timer is running, on the page
\* of script.js and on the page of script_old.js.
C26_AtMostOneTimer ==
    /\ durationTimers <= 1
    /\ durationIntervals_old <= 1

\* a form handler ran with a required field left empty
MissingFieldStep ==
    \/ /\ LoginBtnClick
       /\ \E username, password \in LoginInputs :
             /\ username = "" \/ password = ""
             /\ handleLogin(username, password)
    \/ /\ RegisterBtnClick
       /\ \E username, email, password \in FieldInputs :
             /\ username = "" \/ email = "" \/ password = ""
             /\ handleRegister(username, email, password)
    \/ /\ StartLearningBtnClick
       /\ \E topic, content \in FieldInputs :
             /\ topic = "" \/ content = ""
             /\ startLearningSession(topic, content)
    \/ /\ StartBtnClick
       /\ \E v \in KeyInputs : trim(v) = "" /\ handleStartSession(v)
    \/ /\ UploadSessionBtnClick
       /\ uploadTeacherSession(FALSE)
    \/ /\ AssignmentFormSubmit
       /\ handleCreateAssignment("")

\* C21: a form-driven operation run with a required field missing shows an
\* error notice, starts no request, and leaves authToken, currentUser,
\* apiKey, learningSessionId and the teacher session id as they were.
C21_MissingFieldRejected ==
    [][MissingFieldStep =>
          /\ toast' = "error"
          /\ pending' = pending
          /\ formPending' = formPending
          /\ UNCHANGED <<authToken, currentUser, apiKey, learningSessionId,
                         teacher_session_id>>]_vars

\* C27: when handleStartSession rejects the entered key, on an empty input
\* or when the key test fails, apiKey has the value it had before the call.
C27_RejectedKeyNotKept ==
    [][/\ (StartBtnClick /\ pending' = pending) => apiKey' = apiKey
       /\ \A key \in KeyValues :
             TestKeySettledAs(key, FALSE) => apiKey' = key]_vars

\* C28: when the create-session request ends otherwise than with a success
\* status and a session id, the learning container stays hidden and
\* learningSessionId keeps its value.
C28_LearningNeedsSession ==
    [][\A o \in LearningOutcomes \ {"ok"} :
          CreateLearningSessionSettledAs(o)
          => UNCHANGED <<learningShown, learningSessionId>>]_vars

\* the texts processUserResponse is called with
Utterances == ({trim(v) : v \in ChatInputs} \ {""}) \cup Transcripts

\* C23: the request built for a user utterance carries, under 'Previous
\* conversation:', one 'role: text' line for each of the last 5 turns that
\* precede the utterance (all of them when there are fewer), oldest first,
\* followed or not by the line of the utterance itself; and it carries the
\* utterance.
C23_PromptCarriesLastFive ==
    [][\A userMessage \in Utterances :
          processUserResponse(userMessage) =>
             LET preceding == slice(conversationHistory, -5)
                 lines == [i \in DOMAIN preceding |-> promptLine(preceding[i])]
                 prompt == calls'[Len(calls')].prompt
             IN /\ prompt.said = userMessage
                /\ prompt.previous \in
                      {join(lines, "\n"),
                       join(Append(lines, "user: " \o userMessage), "\n")}]_vars

\* an interview is started afresh on the page of script.js
FreshInterviewStep ==
    \/ StartInterviewClick /\ apiKey # ""
    \/ NewInterviewClick

C29_OneTurnPerUtterance ==
    \A k \in DOMAIN tasks_old :
       /\ tasks_old[k].userTurns <= 1
       /\ tasks_old[k].exchangeTurns <= 1
       /\ tasks_old[k].at \in {"generate", "generateInCatch", "done", "rejected"}
             => tasks_old[k].userTurns = 1 /\ tasks_old[k].exchangeTurns = 1

\* C30: at most one getUserMedia call of script_old.js is pending, and none
\* is pending while mediaStream holds a stream.
C30_StreamAcquiredOnce ==
    /\ Cardinality(TasksAt({"getUserMedia"})) <= 1
    /\ mediaStream_old # "null" => TasksAt({"getUserMedia"}) = {}

====
